---- MODULE Spec2Model ----
(***************************************************************************)
(* Model of short_codes.py: a 1-up counter is scrambled by exponentiation  *)
(* in GF(modulus), rendered as five base-32 symbols, and recovered by      *)
(* Pohlig-Hellman discrete logarithms combined by the Chinese Remainder    *)
(* Theorem.  The module body (import) builds crt_inverses and              *)
(* pohlig_hellman_dlog_tables; afterwards the module's functions are       *)
(* called with arguments drawn from bounded sample sets.                   *)
(*                                                                         *)
(* Python values are modelled as follows.  A str is a sequence of          *)
(* one-character strings.  A dict is a function whose DOMAIN is its key    *)
(* set.  The outcome of a call is a record [exc, at, val]: exc = "none"    *)
(* and val the returned value, or exc the exception type raised and at     *)
(* the object whose lookup raised it.  Python ints are unbounded; every    *)
(* product below is arranged to stay under 2^31.                           *)
(***************************************************************************)
EXTENDS Integers, Sequences, FiniteSets, TLC

(* ---------------- parameters (short_codes.py:41, 74, 135-140) ---------- *)

base32chars ==
  << "B","C","D","F","G","H","J","K","L","M","N","P","Q","R","S","T",
     "V","W","X","Y","Z","2","3","4","5","6","7","8","9","@","*","$" >>

offset == 30

generator == 61

modulus == 17160991

p_minus_1_factors == << 2, 3, 5, 7, 11, 17, 19, 23 >>

(* ---------------- outcomes of a call ----------------------------------- *)

Return(v) == [exc |-> "none", at |-> "", val |-> v]

Raise(e, where) == [exc |-> e, at |-> where, val |-> -1]

(* ---------------- integer arithmetic ----------------------------------- *)

(* (a * b) % m for 0 <= a, b < m <= 2^25, by Horner's rule on the base-64 *)
(* digits of b, so that no intermediate value reaches 2^31.               *)
RECURSIVE mulmod(_, _, _)
mulmod(a, b, m) ==
  IF b = 0 THEN 0
  ELSE LET hi == mulmod(a, b \div 64, m)
       IN  (((hi * 64) % m) + ((a * (b % 64)) % m)) % m

(* Binary exponentiation; st = << acc, sq, e >> with acc * sq^e invariant. *)
RECURSIVE pow_loop(_, _)
pow_loop(m, st) ==
  IF st[3] = 0 THEN st[1]
  ELSE pow_loop(m, << IF st[3] % 2 = 1 THEN mulmod(st[1], st[2], m) ELSE st[1],
                      mulmod(st[2], st[2], m),
                      st[3] \div 2 >>)

(* Python's three-argument pow(b, e, m) for e >= 0.                       *)
pow(b, e, m) == pow_loop(m, << 1 % m, b % m, e >>)

mod_inverse(x, p) == pow(x, p - 2, p)

(* ---------------- module state ----------------------------------------- *)

VARIABLES
  pc,                          \* position in the module body / call in progress
  crt_inverses,                \* dict: factor p -> ((modulus-1)/p)^-1 mod p
  pohlig_hellman_dlog_tables,  \* dict: factor p -> dict: g_p^x mod modulus -> x
  op,                          \* function being (or last) called
  arg,                         \* its argument
  res                          \* its outcome

vars == << pc, crt_inverses, pohlig_hellman_dlog_tables, op, arg, res >>

Pending == [exc |-> "pending", at |-> "", val |-> -1]

(* ---------------- positional codec (short_codes.py:41-71) -------------- *)

LowerLetters ==
  << "a","b","c","d","e","f","g","h","i","j","k","l","m",
     "n","o","p","q","r","s","t","u","v","w","x","y","z" >>

UpperLetters ==
  << "A","B","C","D","E","F","G","H","I","J","K","L","M",
     "N","O","P","Q","R","S","T","U","V","W","X","Y","Z" >>

(* str.upper() on one ASCII character.                                    *)
upper(c) ==
  IF \E k \in 1..26 : LowerLetters[k] = c
  THEN UpperLetters[CHOOSE k \in 1..26 : LowerLetters[k] = c]
  ELSE c

(* {c: i for i, c in enumerate(base32chars)}                              *)
base32chars_map ==
  [c \in {base32chars[i] : i \in 1..Len(base32chars)} |->
     (CHOOSE i \in 1..Len(base32chars) : base32chars[i] = c) - 1]

(* reduce(lambda total, n: total * 32 + n, nums) on a non-empty list:     *)
(* the first element seeds the total.                                      *)
RECURSIVE reduce(_)
reduce(nums) ==
  IF Len(nums) = 1 THEN nums[1]
  ELSE reduce(SubSeq(nums, 1, Len(nums) - 1)) * 32 + nums[Len(nums)]

(* base32_to_int with a lookup that falls back to digit 0 for an unknown   *)
(* character instead of raising.                                           *)
base32_to_int_default(s) ==
  LET nums == [j \in 1..Len(s) |->
                 IF upper(s[j]) \in DOMAIN base32chars_map
                 THEN base32chars_map[upper(s[j])] ELSE 0]
  IN  IF Len(nums) = 0
      THEN Raise("TypeError", "reduce")
      ELSE Return(reduce(nums))

(* base32_to_int without the .upper() of line 54.                         *)
base32_to_int_cased(s) ==
  IF \E j \in 1..Len(s) : s[j] \notin DOMAIN base32chars_map
  THEN Raise("KeyError", "base32chars_map")
  ELSE LET nums == [j \in 1..Len(s) |-> base32chars_map[s[j]]]
       IN  IF Len(nums) = 0
           THEN Raise("TypeError", "reduce")
           ELSE Return(reduce(nums))

base32_to_int(s) ==
  IF \E j \in 1..Len(s) : upper(s[j]) \notin DOMAIN base32chars_map
  THEN Raise("KeyError", "base32chars_map")
  ELSE LET nums == [j \in 1..Len(s) |-> base32chars_map[upper(s[j])]]
       IN  IF Len(nums) = 0
           THEN Raise("TypeError", "reduce")
           ELSE Return(reduce(nums))

(* int_to_base32 whose third digit is taken with the weight of the fourth  *)
(* (n / 32 where n / (32*32) is meant).                                     *)
int_to_base32_wrong_weight(n) ==
  LET a == << n \div (32*32*32*32),
              (n \div (32*32*32)) % 32,
              (n \div 32) % 32,
              (n \div 32) % 32,
              n % 32 >>
  IN  IF \E j \in 1..5 : a[j] >= Len(base32chars)
      THEN Raise("IndexError", "base32chars")
      ELSE Return([j \in 1..5 |-> base32chars[a[j] + 1]])

int_to_base32(n) ==
  LET a == << n \div (32*32*32*32),
              (n \div (32*32*32)) % 32,
              (n \div (32*32)) % 32,
              (n \div 32) % 32,
              n % 32 >>
  IN  IF \E j \in 1..5 : a[j] >= Len(base32chars)
      THEN Raise("IndexError", "base32chars")
      ELSE Return([j \in 1..5 |-> base32chars[a[j] + 1]])

(* ---------------- scrambler (short_codes.py:76-86) --------------------- *)

(* scramble without the offset.                                            *)
scramble_no_offset(x) == pow(generator, x, modulus)

(* scramble with the exponent reduced modulo modulus, not modulus - 1.    *)
scramble_wrong_period(x) == pow(generator, (x + offset) % modulus, modulus)

scramble(x) == pow(generator, x + offset, modulus)

(* ---------------- Pohlig-Hellman tables (short_codes.py:166-181) ------- *)

(* The loop of calculate_ph_dlog_table; st = << x, gx, table >> holds the  *)
(* loop's locals before iteration x.                                       *)
RECURSIVE ph_loop(_, _, _)
ph_loop(p, g, st) ==
  IF st[1] = p THEN st[3]
  ELSE ph_loop(p, g, << st[1] + 1,
                        mulmod(st[2], g, modulus),
                        (st[2] :> st[1]) @@ st[3] >>)

(* calculate_ph_dlog_table starting from gx = g instead of gx = 1.        *)
calculate_ph_dlog_table_shifted(p) ==
  LET g == pow(generator, (modulus - 1) \div p, modulus)
  IN  ph_loop(p, g, << 0, g, << >> >>)

calculate_ph_dlog_table(p) ==
  LET g == pow(generator, (modulus - 1) \div p, modulus)
  IN  ph_loop(p, g, << 0, 1, << >> >>)

discrete_log(x, p) ==
  LET y == pow(x, (modulus - 1) \div p, modulus)
  IN  IF y \in DOMAIN pohlig_hellman_dlog_tables[p]
      THEN Return(pohlig_hellman_dlog_tables[p][y])
      ELSE Raise("KeyError", "pohlig_hellman_dlog_tables")

(* ---------------- Chinese Remainder Theorem (short_codes.py:158-164) --- *)

RECURSIVE crt_sum(_, _)
crt_sum(nums, k) ==
  IF k = 0 THEN 0
  ELSE LET n == p_minus_1_factors[k]
       IN  crt_sum(nums, k - 1)
             + nums[k] * ((modulus - 1) \div n) * crt_inverses[n]

chinese_remainder_theorem(nums) ==
  crt_sum(nums, Len(p_minus_1_factors)) % (modulus - 1)

(* ---------------- unscrambler (short_codes.py:89-102) ------------------ *)

(* unscramble without subtracting the offset.                              *)
unscramble_no_offset(x) ==
  LET logs == [k \in 1..Len(p_minus_1_factors) |->
                 discrete_log(x, p_minus_1_factors[k])]
  IN  IF \E k \in 1..Len(logs) : logs[k].exc # "none"
      THEN logs[CHOOSE k \in 1..Len(logs) :
                  /\ logs[k].exc # "none"
                  /\ \A j \in 1..(k - 1) : logs[j].exc = "none"]
      ELSE LET num == chinese_remainder_theorem(
                        [k \in 1..Len(logs) |-> logs[k].val])
           IN  Return(num % (modulus - 1))

unscramble(x) ==
  LET logs == [k \in 1..Len(p_minus_1_factors) |->
                 discrete_log(x, p_minus_1_factors[k])]
  IN  IF \E k \in 1..Len(logs) : logs[k].exc # "none"
      THEN logs[CHOOSE k \in 1..Len(logs) :
                  /\ logs[k].exc # "none"
                  /\ \A j \in 1..(k - 1) : logs[j].exc = "none"]
      ELSE LET num == chinese_remainder_theorem(
                        [k \in 1..Len(logs) |-> logs[k].val]) - offset
           IN  Return(num % (modulus - 1))

(* ---------------- facade (short_codes.py:14-37) ------------------------ *)

short_code(i) == int_to_base32(scramble(i))

deshort_code(c) ==
  LET n == base32_to_int(c)
  IN  IF n.exc # "none" THEN n ELSE unscramble(n.val)

(* ---------------- arguments the calls are made with -------------------- *)

MaxCounter == 12

Stride == 1320077

Counters ==
  (0..MaxCounter) \cup {123}
    \cup {j * Stride : j \in 1..MaxCounter}
    \cup {modulus - 2 - j : j \in 0..MaxCounter}
    \cup {modulus - 1 + j : j \in 0..MaxCounter}

Pow32(e) == IF e = 0 THEN 1 ELSE IF e = 1 THEN 32 ELSE IF e = 2 THEN 1024
            ELSE IF e = 3 THEN 32768 ELSE IF e = 4 THEN 1048576 ELSE 33554432

CodecInts ==
  (0..MaxCounter)
    \cup {Pow32(e) + d : e \in 1..4, d \in {-1, 0, 1}}
    \cup {Pow32(5) - 1 - j : j \in 0..MaxCounter}
    \cup {modulus - 1, modulus, modulus + 1, Pow32(5)}
    \cup {j * Stride : j \in 1..MaxCounter}
    \cup {scramble(i) : i \in (0..MaxCounter) \cup {123}}

GroupInts ==
  {scramble(i) : i \in Counters}
    \cup (0..MaxCounter)
    \cup {modulus - 1, modulus, modulus + 1, Pow32(5) - 1}

lower(c) ==
  IF \E k \in 1..26 : UpperLetters[k] = c
  THEN LowerLetters[CHOOSE k \in 1..26 : UpperLetters[k] = c]
  ELSE c

Lowered(s) == [j \in 1..Len(s) |-> lower(s[j])]

Uppered(s) == [j \in 1..Len(s) |-> upper(s[j])]

Mixed(s) == [j \in 1..Len(s) |-> IF j % 2 = 1 THEN lower(s[j]) ELSE s[j]]

CodeInts ==
  {0, 1, modulus, modulus + 1, Pow32(5) - 1}
    \cup {scramble(i) : i \in (0..MaxCounter) \cup {123, modulus - 2}}

WellFormed == {int_to_base32(n).val : n \in CodeInts}

Recased == {Lowered(c) : c \in WellFormed} \cup {Mixed(c) : c \in WellFormed}

WrongLength ==
  {SubSeq(c, 1, l) : c \in WellFormed, l \in 0..4}
    \cup {Append(c, x) : c \in WellFormed, x \in {"B", "$", "k"}}

BadChars == {"A", "e", "0", "1", "-"}

WithBadChar ==
  {[c EXCEPT ![j] = x] : c \in WellFormed, j \in 1..5, x \in BadChars}
    \cup {[Lowered(c) EXCEPT ![j] = x] : c \in WellFormed, j \in {1, 5}, x \in BadChars}
    \cup {[j \in 1..5 |-> x] : x \in BadChars}

Codes == WellFormed \cup Recased \cup WrongLength \cup WithBadChar

IntFunctions == {"short_code", "scramble", "int_to_base32", "unscramble"}

StrFunctions == {"deshort_code", "base32_to_int"}

Args(f) ==
  IF f \in {"short_code", "scramble"} THEN Counters
  ELSE IF f = "int_to_base32" THEN CodecInts
  ELSE IF f = "unscramble" THEN GroupInts
  ELSE Codes

(* ---------------- the module body: import ------------------------------ *)

Init ==
  /\ pc = "crt_inverses"
  /\ crt_inverses = << >>
  /\ pohlig_hellman_dlog_tables = << >>
  /\ op = "none"
  /\ arg = -1
  /\ res = Pending

(* One item of the dict comprehension at line 155.                        *)
BuildCrtInverses ==
  /\ pc = "crt_inverses"
  /\ LET k == Cardinality(DOMAIN crt_inverses) + 1
     IN  IF k <= Len(p_minus_1_factors)
         THEN LET p == p_minus_1_factors[k]
              IN  /\ crt_inverses' =
                       (p :> mod_inverse((modulus - 1) \div p, p)) @@ crt_inverses
                  /\ pc' = pc
         ELSE /\ pc' = "pohlig_hellman_dlog_tables"
              /\ UNCHANGED crt_inverses
  /\ UNCHANGED << pohlig_hellman_dlog_tables, op, arg, res >>

(* One item of the dict comprehension at line 176.                        *)
BuildDlogTables ==
  /\ pc = "pohlig_hellman_dlog_tables"
  /\ LET k == Cardinality(DOMAIN pohlig_hellman_dlog_tables) + 1
     IN  IF k <= Len(p_minus_1_factors)
         THEN LET p == p_minus_1_factors[k]
              IN  /\ pohlig_hellman_dlog_tables' =
                       (p :> calculate_ph_dlog_table(p)) @@ pohlig_hellman_dlog_tables
                  /\ pc' = pc
         ELSE /\ pc' = "ready"
              /\ UNCHANGED pohlig_hellman_dlog_tables
  /\ UNCHANGED << crt_inverses, op, arg, res >>

(* ---------------- calls into the imported module ----------------------- *)

(* A caller picks a function and an argument; the body runs next.         *)
Invoke ==
  /\ pc = "ready"
  /\ \E f \in IntFunctions \cup StrFunctions :
       \E a \in Args(f) :
         /\ op' = f
         /\ arg' = a
  /\ res' = Pending
  /\ pc' = "call"
  /\ UNCHANGED << crt_inverses, pohlig_hellman_dlog_tables >>

ShortCode ==
  /\ pc = "call"
  /\ op = "short_code"
  /\ res' = short_code(arg)
  /\ pc' = "ready"
  /\ UNCHANGED << crt_inverses, pohlig_hellman_dlog_tables, op, arg >>

(* deshort_code whose failed table lookup leaves an entry behind (a       *)
(* lookup that inserts a default, as a defaultdict would).                 *)
DeshortCodeInserting ==
  /\ pc = "call"
  /\ op = "deshort_code"
  /\ res' = deshort_code(arg)
  /\ pc' = "ready"
  /\ pohlig_hellman_dlog_tables' =
       IF res'.exc = "KeyError" /\ res'.at = "pohlig_hellman_dlog_tables"
       THEN [pohlig_hellman_dlog_tables EXCEPT ![2] = (0 :> 0) @@ @]
       ELSE pohlig_hellman_dlog_tables
  /\ UNCHANGED << crt_inverses, op, arg >>

DeshortCode ==
  /\ pc = "call"
  /\ op = "deshort_code"
  /\ res' = deshort_code(arg)
  /\ pc' = "ready"
  /\ UNCHANGED << crt_inverses, pohlig_hellman_dlog_tables, op, arg >>

Base32ToInt ==
  /\ pc = "call"
  /\ op = "base32_to_int"
  /\ res' = base32_to_int(arg)
  /\ pc' = "ready"
  /\ UNCHANGED << crt_inverses, pohlig_hellman_dlog_tables, op, arg >>

IntToBase32 ==
  /\ pc = "call"
  /\ op = "int_to_base32"
  /\ res' = int_to_base32(arg)
  /\ pc' = "ready"
  /\ UNCHANGED << crt_inverses, pohlig_hellman_dlog_tables, op, arg >>

Scramble ==
  /\ pc = "call"
  /\ op = "scramble"
  /\ res' = Return(scramble(arg))
  /\ pc' = "ready"
  /\ UNCHANGED << crt_inverses, pohlig_hellman_dlog_tables, op, arg >>

Unscramble ==
  /\ pc = "call"
  /\ op = "unscramble"
  /\ res' = unscramble(arg)
  /\ pc' = "ready"
  /\ UNCHANGED << crt_inverses, pohlig_hellman_dlog_tables, op, arg >>

Next ==
  \/ BuildCrtInverses
  \/ BuildDlogTables
  \/ Invoke
  \/ ShortCode
  \/ DeshortCode
  \/ Base32ToInt
  \/ IntToBase32
  \/ Scramble
  \/ Unscramble

Spec == Init /\ [][Next]_vars

(* ======================= properties ==================================== *)

Alphabet == {base32chars[i] : i \in 1..Len(base32chars)}

Factors == {p_minus_1_factors[k] : k \in 1..Len(p_minus_1_factors)}

Imported == pc \in {"ready", "call"}

Returned(f) == pc = "ready" /\ op = f

GCWB5 == << "G", "C", "W", "B", "5" >>

CR54K == << "C", "R", "5", "4", "K" >>

K8PN == << "K", "8", "$", "P", "N" >>

(* C1: for every counter i in [0, modulus-2], deshort_code(short_code(i)) *)
(* returns i: unscramble(scramble(i)) = i and the codec hands the         *)
(* scrambled value back unchanged.                                         *)
C1_RoundTrip ==
  (Returned("short_code") /\ arg \in 0..(modulus - 2)) =>
     /\ res.exc = "none"
     /\ base32_to_int(res.val) = Return(scramble(arg))
     /\ unscramble(scramble(arg)) = Return(arg)
     /\ deshort_code(res.val) = Return(arg)

C1_Witness ==
  /\ Returned("short_code")
  /\ arg = modulus - 2
  /\ deshort_code(res.val) = Return(modulus - 2)

(* C2: deshort_code raises, and returns no counter, for every five-symbol *)
(* code whose base-32 value y is 0 or at least modulus.                   *)
C2_OutOfRangeRejected ==
  (/\ Returned("deshort_code")
   /\ Len(arg) = 5
   /\ base32_to_int(arg).exc = "none"
   /\ \/ base32_to_int(arg).val = 0
      \/ base32_to_int(arg).val >= modulus)
    => res.exc # "none"

(* C3: base32_to_int, and so deshort_code, raises for every input whose   *)
(* length is not 5, and returns no integer for it.                         *)
C3_WrongLengthRejected ==
  (pc = "ready" /\ op \in StrFunctions /\ Len(arg) # 5) => res.exc # "none"

(* C4: base32_to_int, and so deshort_code, raises the alphabet lookup's   *)
(* KeyError for every five-character input holding a character whose      *)
(* upper-case form is not an alphabet symbol; no integer is returned.      *)
C4_InvalidCharacter ==
  (/\ pc = "ready"
   /\ op \in StrFunctions
   /\ Len(arg) = 5
   /\ \E j \in 1..5 : upper(arg[j]) \notin Alphabet)
    => res = Raise("KeyError", "base32chars_map")

C4_Witness ==
  /\ Returned("deshort_code")
  /\ arg = << "A", "A", "A", "A", "A" >>
  /\ res.exc = "KeyError"

(* C5: for every n in [0, 32^5), int_to_base32(n) is five alphabet        *)
(* symbols, most significant digit first, and base32_to_int of it is n;   *)
(* int_to_base32(0) = "BBBBB" and base32_to_int("BBBBC") = 1.             *)
C5_CodecRoundTrip ==
  (Returned("int_to_base32") /\ arg \in 0..(Pow32(5) - 1)) =>
     /\ res.exc = "none"
     /\ Len(res.val) = 5
     /\ \A j \in 1..5 : res.val[j] \in Alphabet
     /\ base32_to_int(res.val) = Return(arg)
     /\ arg = 0 => res.val = << "B", "B", "B", "B", "B" >>
     /\ arg = 1 => res.val = << "B", "B", "B", "B", "C" >>
     /\ arg = 32 => res.val = << "B", "B", "B", "C", "B" >>
     /\ arg = Pow32(4) => res.val = << "C", "B", "B", "B", "B" >>
     /\ arg = Pow32(5) - 1 => res.val = << "$", "$", "$", "$", "$" >>

C5_Witness ==
  /\ Returned("int_to_base32")
  /\ arg = Pow32(4) + 1
  /\ res.val = << "C", "B", "B", "B", "C" >>
  /\ base32_to_int(res.val) = Return(arg)

(* C6: the compatibility vectors: counters 0, 1, 123 scramble to 4244504, *)
(* 1499879, 8256874, are coded GCWB5, CR54K, K8$PN, and those codes       *)
(* decode to 0, 1, 123.                                                    *)
C6_Vectors ==
  /\ (Returned("scramble") /\ arg = 0) => res = Return(4244504)
  /\ (Returned("scramble") /\ arg = 1) => res = Return(1499879)
  /\ (Returned("scramble") /\ arg = 123) => res = Return(8256874)
  /\ (Returned("short_code") /\ arg = 0) => res = Return(GCWB5)
  /\ (Returned("short_code") /\ arg = 1) => res = Return(CR54K)
  /\ (Returned("short_code") /\ arg = 123) => res = Return(K8PN)
  /\ (Returned("deshort_code") /\ arg = GCWB5) => res = Return(0)
  /\ (Returned("deshort_code") /\ arg = CR54K) => res = Return(1)
  /\ (Returned("deshort_code") /\ arg = K8PN) => res = Return(123)

C6_Witness ==
  /\ Returned("deshort_code")
  /\ arg = K8PN
  /\ res = Return(123)

(* C7: short_code(i) = short_code(i + (modulus-1)) for every counter i,   *)
(* scramble has period modulus-1, and deshort_code returns the common     *)
(* representative in [0, modulus-2].                                       *)
C7_Periodicity ==
  /\ Returned("scramble") => res = Return(scramble(arg + (modulus - 1)))
  /\ Returned("short_code") =>
       /\ res = short_code(arg + (modulus - 1))
       /\ deshort_code(res.val) = Return(arg % (modulus - 1))
  /\ (Returned("deshort_code") /\ res.exc = "none") =>
       res.val \in 0..(modulus - 2)

C7_Witness ==
  /\ Returned("short_code")
  /\ arg = modulus - 1 + 3
  /\ res = short_code(3)
  /\ deshort_code(res.val) = Return(3)

(* C8: for every five-character s whose upper-cased characters are all    *)
(* alphabet symbols, base32_to_int gives the same integer for s, for s    *)
(* upper-cased and for s lower-cased, and deshort_code the same outcome.  *)
C8_CaseInsensitive ==
  (/\ pc = "ready"
   /\ op \in StrFunctions
   /\ Len(arg) = 5
   /\ \A j \in 1..5 : upper(arg[j]) \in Alphabet)
    => /\ op = "base32_to_int" =>
            /\ res.exc = "none"
            /\ res = base32_to_int(Uppered(arg))
            /\ res = base32_to_int(Lowered(arg))
       /\ op = "deshort_code" =>
            /\ res = deshort_code(Uppered(arg))
            /\ res = deshort_code(Lowered(arg))

C8_Witness ==
  /\ Returned("base32_to_int")
  /\ arg = << "g", "C", "w", "B", "5" >>
  /\ res = base32_to_int(GCWB5)
  /\ res.exc = "none"

(* C9: for every factor p, g_p = generator^((modulus-1)/p) has order      *)
(* exactly p, the table built for p has exactly p keys with               *)
(* table[g_p^k] = k for k in [0, p), 87 entries in all, and               *)
(* discrete_log(generator^e, p) finds an entry and returns e mod p.       *)
RECURSIVE TableEntries(_)
TableEntries(k) ==
  IF k = 0 THEN 0
  ELSE TableEntries(k - 1)
         + Cardinality(DOMAIN pohlig_hellman_dlog_tables[p_minus_1_factors[k]])

C9_PohligHellman ==
  /\ op = "none" =>
       \A p \in DOMAIN pohlig_hellman_dlog_tables :
         LET g_p   == pow(generator, (modulus - 1) \div p, modulus)
             table == pohlig_hellman_dlog_tables[p]
         IN  /\ pow(g_p, p, modulus) = 1
             /\ \A k \in 1..(p - 1) : pow(g_p, k, modulus) # 1
             /\ Cardinality(DOMAIN table) = p
             /\ \A k \in 0..(p - 1) :
                  /\ pow(g_p, k, modulus) \in DOMAIN table
                  /\ table[pow(g_p, k, modulus)] = k
  /\ (op = "none" /\ pc = "ready") =>
       TableEntries(Len(p_minus_1_factors)) = 87
  /\ Returned("scramble") =>
       \A p \in Factors :
         discrete_log(res.val, p) = Return((arg + offset) % p)

C9_Witness ==
  /\ Returned("scramble")
  /\ arg = 123
  /\ discrete_log(res.val, 23) = Return(15)
  /\ Cardinality(DOMAIN pohlig_hellman_dlog_tables[23]) = 23

(* C10: no call runs before crt_inverses and the discrete-log tables are  *)
(* built, and once they are built no step, whether the call returns or    *)
(* raises, changes them.                                                    *)
C10_ReadOnlyTables ==
  /\ [](op # "none" =>
          /\ Imported
          /\ DOMAIN crt_inverses = Factors
          /\ DOMAIN pohlig_hellman_dlog_tables = Factors)
  /\ [][Imported =>
          /\ Imported'
          /\ UNCHANGED << crt_inverses, pohlig_hellman_dlog_tables >>]_vars

C10_Witness ==
  /\ Returned("deshort_code")
  /\ res = Raise("KeyError", "pohlig_hellman_dlog_tables")
  /\ DOMAIN pohlig_hellman_dlog_tables = Factors
  /\ 0 \notin DOMAIN pohlig_hellman_dlog_tables[2]

====
